---- MODULE Spec2Model ----
(***************************************************************************)
(* Anchor generation and ground-truth assignment of src/utils/detection.py *)
(* (prior_box, center_point2boxes, compute_intersect, compute_overlaps,    *)
(* match, BboxEncoder).                                                    *)
(*                                                                         *)
(* Numbers.  The arrays of the code are float32 arrays: prior_box casts to *)
(* np.float32, and the annotation array is taken to be float32, so every   *)
(* operation of match() is a float32 operation and a Python float it meets *)
(* (0.2, the threshold, a variance, 1e-12) is first cast to float32.  The  *)
(* model computes as the code does: a float32 is a pair <<m, e>> standing  *)
(* for m * 2^e with 2^23 <= |m| < 2^24 (<<0, 0>> is zero), and every       *)
(* operation rounds its exact result to the nearest such value, ties to    *)
(* the even mantissa.  A value below 2^-126 keeps this form, with as many  *)
(* trailing zero digits as its exponent is below -149, and is rounded at   *)
(* 2^-149; a result of 2^128 or more is an infinity; <<0, -999>> is -0.0.  *)
(* The configuration holds Python floats, kept as reals <<n, d>>.  An      *)
(* encoded target is a record [f, x, v]: the float32 x ("id"), or          *)
(* log(x) / v ("log"), whose logarithm is not evaluated.                   *)
(*                                                                         *)
(* Sorting.  np.argsort is called with its default kind, NumPy's index     *)
(* introsort: a line of more than 17 keys is partitioned around the median *)
(* of its first, middle and last key, the smaller side first, and a line   *)
(* or a side of at most 17 keys is sorted by insertion.  The model sorts   *)
(* the same way, so the position it puts first among equal keys is the one *)
(* that sort puts first.  (The sort's fallback to heapsort after           *)
(* 2 * floor(log2(n)) nested partitions is not reached by the lines of     *)
(* this model.)                                                            *)
(***************************************************************************)
EXTENDS Integers, Sequences, FiniteSets

VARIABLES
    config,   \* the configuration record handed to BboxEncoder.__init__
    enc,      \* the encoder object: match_thresh, variances, priors
    image,    \* the caller's image handle
    targets,  \* the caller's annotation array, [den, rows], 15 columns
    out       \* what the last __call__ did, with match()'s intermediates

vars == <<config, enc, image, targets, out>>

--------------------------------------------------------------------------
(* Integer and rational helpers *)

Abs(x) == IF x < 0 THEN -x ELSE x

Min(x, y) == IF x <= y THEN x ELSE y

Max(x, y) == IF x >= y THEN x ELSE y

RECURSIVE Gcd(_, _)
Gcd(a, b) == IF b = 0 THEN a ELSE Gcd(b, a % b)

\* math.ceil(a / b) for integers a and b > 0 (\div rounds down).
Ceil(a, b) == -((-a) \div b)

\* The real n/d in lowest terms, sign in the numerator (d # 0).
Rat(n, d) ==
    LET g == Gcd(Abs(n), Abs(d))
        s == IF d < 0 THEN -1 ELSE 1
    IN  <<s * (n \div g), s * (d \div g)>>

\* x < y and x >= y on reals <<n, d>> with d > 0.
RatLt(x, y) == x[1] * y[2] < y[1] * x[2]

RatGe(x, y) == x[1] * y[2] >= y[1] * x[2]

Pow2(n) == 2 ^ n

\* Number of binary digits of 0 <= n < 2^31.
BitLen(n) == IF n = 0 THEN 0 ELSE CHOOSE k \in 1..31 : n \div Pow2(k - 1) = 1

RECURSIVE Flatten(_)
Flatten(ss) == IF ss = <<>> THEN <<>> ELSE Head(ss) \o Flatten(Tail(ss))

\* The sequence f itself, its entries evaluated once.
Table(f) == f \o <<>>

--------------------------------------------------------------------------
(* float32 *)

Zero == <<0, 0>>

\* -0.0: equal to Zero in every comparison, told apart by a division.
NegZero == <<0, -999>>

One == <<8388608, -23>>

\* The smallest positive float32, 2^-149, and the exponent of the largest
\* mantissa: the largest float32 is (2^24 - 1) * 2^104.
MinSubnormal == <<8388608, -172>>

MaxExp == 104

\* nan and the infinities.  The exponent 999 marks them.
Nan == <<0, 999>>

PosInf == <<1, 999>>

NegInf == <<-1, 999>>

IsNan(x) == x = Nan

Finite(x) == x[2] # 999

IsZero(x) == x = Zero \/ x = NegZero

\* The sign bit of a value that is not nan.
IsNeg(x) == x[1] < 0 \/ x = NegZero

Neg(x) == IF x = Zero THEN NegZero
          ELSE IF x = NegZero THEN Zero
          ELSE <<-x[1], x[2]>>

\* -x if neg, else x.
Signed(neg, x) == IF neg THEN Neg(x) ELSE x

\* q * 2^e for a mantissa q of `bits` digits, 0 < q < 2^24, with the
\* mantissa brought to 24 digits; infinite beyond the largest float32.
Ranged(q, e, bits) ==
    IF e + bits - 24 > MaxExp THEN PosInf
    ELSE <<q * Pow2(24 - bits), e - (24 - bits)>>

\* A mantissa that rounding carried to 2^24 is 2^23 one exponent up.
Carry(q, e) ==
    IF q = Pow2(24) THEN Ranged(Pow2(23), e + 1, 24)
    ELSE Ranged(q, e, BitLen(q))

\* (q + rem / (2 * half)) * 2^e to the nearest integer mantissa, ties to
\* the even one; sticky: the value is a little above q + rem / (2 * half).
RoundUp(q, rem, half, sticky, e) ==
    Carry(IF rem > half \/ (rem = half /\ (sticky \/ (q % 2) = 1))
          THEN q + 1 ELSE q, e)

\* A mantissa of `bits` binary digits rounded to its `keep` leading ones.
\* keep = 0: the value is in [2^-150, 2^-149), and goes to 2^-149 unless it
\* is the tie 2^-150, which goes to the even neighbour 0.
F32Keep(M, sticky, e, bits, keep) ==
    IF keep < 0 THEN Zero
    ELSE IF keep = 0
    THEN (IF sticky \/ M > Pow2(bits - 1) THEN MinSubnormal ELSE Zero)
    ELSE IF bits <= keep THEN Ranged(M, e, bits)
    ELSE RoundUp(M \div Pow2(bits - keep), M % Pow2(bits - keep),
                 Pow2(bits - keep - 1), sticky, e + (bits - keep))

\* A mantissa of `bits` binary digits rounded to the digits a float32 of
\* its size has: 24, or as many as lie at or above 2^-149.
F32Norm(M, sticky, e, bits) ==
    F32Keep(M, sticky, e, bits, Min(24, e + bits + 149))

\* (M + t) * 2^e rounded to float32, for an integer 0 <= M < 2^31 and a
\* fraction 0 <= t < 1 that is non-zero iff sticky (then M >= 2^24, so the
\* bit to round at is in M).  Round to nearest, ties to even; a result of
\* 2^128 or more is infinite, a result below 2^-126 is rounded at 2^-149.
F32Round(M, sticky, e) ==
    IF M = 0 THEN Zero ELSE F32Norm(M, sticky, e, BitLen(M))

\* <<floor((q * d + r) * 2^k / d), remainder>> for 0 <= r < d < 2^25,
\* six binary digits at a time.
RECURSIVE LongDiv(_, _, _, _)
LongDiv(q, r, d, k) ==
    IF k = 0 THEN <<q, r>>
    ELSE LongDiv(q * Pow2(Min(k, 6)) + ((r * Pow2(Min(k, 6))) \div d),
                 (r * Pow2(Min(k, 6))) % d, d, k - Min(k, 6))

\* A quotient and remainder rounded: (qr[1] + qr[2] / d) * 2^e.
RoundPair(qr, e) == F32Round(qr[1], qr[2] # 0, e)

\* (n / d) * 2^e rounded to float32 from k binary digits after the point.
QuotientAt(n, d, e, k) == RoundPair(LongDiv(n \div d, n % d, d, k), e - k)

\* (n / d) * 2^e rounded to float32, for integers n >= 0 and 0 < d < 2^25.
F32Quotient(n, d, e) ==
    IF n = 0 THEN Zero
    ELSE QuotientAt(n, d, e, Max(0, 26 - (BitLen(n) - BitLen(d))))

\* np.float32(n / d) of a real <<n, d>> with d > 0.  (A Python float is a
\* double first; for the denominators of this model rounding it to float32
\* gives the float32 nearest to n/d.)
F32(r) == Signed(r[1] < 0, F32Quotient(Abs(r[1]), r[2], 0))

\* |x| >= |y| for finite non-zero x and y.
AbsGe(x, y) == x[2] > y[2] \/ (x[2] = y[2] /\ Abs(x[1]) >= Abs(y[1]))

\* x + y with y shifted right by k digits, diff the difference of the
\* exponents.
AddShift(x, y, diff, k) ==
    F32Round(x[1] * Pow2(diff - k) + (y[1] \div Pow2(k)),
             (y[1] % Pow2(k)) # 0, y[2] + k)

\* x + y for 0 < |y| <= x.
AddPos(x, y) ==
    IF x[2] - y[2] >= 27 THEN x
    ELSE AddShift(x, y, x[2] - y[2], Max(x[2] - y[2] - 6, 0))

\* A sum of magnitude r: x + (-x) is +0.0, whatever the sign of x.
SignedSum(neg, r) == IF r = Zero THEN Zero ELSE Signed(neg, r)

\* x + y for 0 < |y| <= |x|.
AddOrdered(x, y) ==
    SignedSum(x[1] < 0, AddPos(Signed(x[1] < 0, x), Signed(x[1] < 0, y)))

\* The sum of two zeros: -0.0 only when both are.
AddZeros(x, y) == IF x = NegZero /\ y = NegZero THEN NegZero ELSE Zero

\* float32 x + y.
F32Add(x, y) ==
    IF IsNan(x) \/ IsNan(y) THEN Nan
    ELSE IF ~Finite(x) THEN (IF ~Finite(y) /\ y # x THEN Nan ELSE x)
    ELSE IF ~Finite(y) THEN y
    ELSE IF IsZero(y) THEN (IF IsZero(x) THEN AddZeros(x, y) ELSE x)
    ELSE IF IsZero(x) THEN y
    ELSE AddOrdered(IF AbsGe(x, y) THEN x ELSE y,
                    IF AbsGe(x, y) THEN y ELSE x)

\* float32 x - y.
F32Sub(x, y) == F32Add(x, Neg(y))

\* (hi * 2^24 + lo) * 2^(e - 18) rounded, for the 48-bit product hi, lo.
MulRound(hi, lo, e) ==
    F32Round(hi * 64 + (lo \div 262144), (lo % 262144) # 0, e)

MulCarry(p0, t1, hh, e) ==
    MulRound(hh + (t1 \div 4096), (t1 % 4096) * 4096 + (p0 % 4096), e)

MulParts(a1, a0, b1, b0, p0, e) ==
    MulCarry(p0, a1 * b0 + a0 * b1 + (p0 \div 4096), a1 * b1, e)

\* a * b * 2^(e - 18) rounded: the 48-bit product of two 24-bit mantissas
\* from their 12-bit halves.
MulAbs(a, b, e) ==
    MulParts(a \div 4096, a % 4096, b \div 4096, b % 4096,
             (a % 4096) * (b % 4096), e)

\* float32 x * y.  The sign of the result, a zero included, is the product
\* of the signs.
F32Mul(x, y) ==
    IF IsNan(x) \/ IsNan(y) THEN Nan
    ELSE IF ~Finite(x) \/ ~Finite(y)
    THEN (IF IsZero(x) \/ IsZero(y) THEN Nan
          ELSE Signed(IsNeg(x) # IsNeg(y), PosInf))
    ELSE IF IsZero(x) \/ IsZero(y) THEN Signed(IsNeg(x) # IsNeg(y), Zero)
    ELSE Signed(IsNeg(x) # IsNeg(y),
                MulAbs(Abs(x[1]), Abs(y[1]), x[2] + y[2] + 18))

\* float32 x / y.  The sign of the result, a zero or an infinity included,
\* is the quotient of the signs.
F32Div(x, y) ==
    IF IsNan(x) \/ IsNan(y) THEN Nan
    ELSE IF ~Finite(x)
    THEN (IF ~Finite(y) THEN Nan ELSE Signed(IsNeg(x) # IsNeg(y), PosInf))
    ELSE IF ~Finite(y) THEN Signed(IsNeg(x) # IsNeg(y), Zero)
    ELSE IF IsZero(y)
    THEN (IF IsZero(x) THEN Nan ELSE Signed(IsNeg(x) # IsNeg(y), PosInf))
    ELSE IF IsZero(x) THEN Signed(IsNeg(x) # IsNeg(y), Zero)
    ELSE Signed(IsNeg(x) # IsNeg(y),
                F32Quotient(Abs(x[1]), Abs(y[1]), x[2] - y[2]))

Sign(n) == IF n > 0 THEN 1 ELSE IF n < 0 THEN -1 ELSE 0

\* x < y on float32 values of signs sx and sy that are not nan.
LessSigned(x, y, sx, sy) ==
    IF sx # sy THEN sx < sy
    ELSE IF sx = 0 THEN FALSE
    ELSE IF x[2] # y[2] THEN (IF sx > 0 THEN x[2] < y[2] ELSE x[2] > y[2])
    ELSE x[1] < y[1]

\* x < y on float32 values that are not nan.
Less(x, y) == LessSigned(x, y, Sign(x[1]), Sign(y[1]))

\* float32 x < y and x >= y: both False when an operand is nan.
F32Lt(x, y) == ~IsNan(x) /\ ~IsNan(y) /\ Less(x, y)

F32Ge(x, y) == ~IsNan(x) /\ ~IsNan(y) /\ ~Less(x, y)

\* np.minimum and np.maximum of two values, as NumPy's element loop
\* computes them: (x <= y or isnan(x)) ? x : y, and the same with >=.  nan
\* if either is nan; of two equal values, the first.
F32Min(x, y) == IF IsNan(x) \/ IsNan(y) THEN Nan
                ELSE IF Less(y, x) THEN y ELSE x

F32Max(x, y) == IF IsNan(x) \/ IsNan(y) THEN Nan
                ELSE IF Less(x, y) THEN y ELSE x

\* The two halves of np.clip(x, lo, hi) = min(max(x, lo), hi), where
\* max(x, lo) is isnan(x) ? x : (x > lo ? x : lo) and min likewise with <:
\* of two equal values, the bound.
ClipLow(x, lo) == IF IsNan(x) THEN x ELSE IF F32Lt(lo, x) THEN x ELSE lo

ClipHigh(x, hi) == IF IsNan(x) THEN x ELSE IF F32Lt(x, hi) THEN x ELSE hi

\* x / 2: exact, except for a subnormal x with an odd last digit.
F32Half(x) ==
    IF ~Finite(x) \/ IsZero(x) THEN x
    ELSE Signed(x[1] < 0, F32Round(Abs(x[1]), FALSE, x[2] - 1))

IntMax == 2147483647

IntMin == -IntMax - 1

\* What a cast to int32 gives for a float32 with no int32 value (nan, an
\* infinity, 2^31 or more, less than -2^31).  C leaves it undefined.  The
\* x86 conversion gives the "integer indefinite" -2^31 for all of them; the
\* ARM conversion saturates, and gives 0 for nan.
Casts == {"indefinite", "saturate"}

InvalidCast(x, cast) ==
    IF cast = "indefinite" THEN IntMin
    ELSE IF IsNan(x) THEN 0
    ELSE IF x[1] > 0 THEN IntMax
    ELSE IntMin

\* The integer a cast to int32 makes of a float32: toward zero.
ToInt32(x, cast) ==
    IF x[2] >= 8 THEN (IF x = <<-8388608, 8>> THEN IntMin
                       ELSE InvalidCast(x, cast))
    ELSE IF x[2] >= 0 THEN x[1] * Pow2(x[2])
    ELSE IF x[2] <= -24 THEN 0
    ELSE IF x[1] >= 0 THEN x[1] \div Pow2(-x[2])
    ELSE -((-x[1]) \div Pow2(-x[2]))

\* An encoded target: the float32 x ("id") or log(x) / v ("log").
Enc(f, x, v) == [f |-> f, x |-> x, v |-> v]

\* np.zeros entry.
ZeroVal == Enc("id", Zero, One)

--------------------------------------------------------------------------
(* prior_box *)

\* The fixed scale parameters BboxEncoder.__init__ passes to prior_box.
MinSizes == <<(<<16, 32>>), (<<64, 128>>), (<<256, 512>>)>>

Steps == <<8, 16, 32>>

\* feature_maps: [ceil(image_sizes[0] / step), ceil(image_sizes[1] / step)].
FeatureMaps(image_sizes, steps) ==
    [k \in 1..Len(steps) |->
        <<Ceil(image_sizes[1], steps[k]), Ceil(image_sizes[2], steps[k])>>]

\* np.clip(x, 0, 1).
Clip01(x) == ClipHigh(ClipLow(x, Zero), One)

\* One anchor [cx, cy, s_kx, s_ky] as reals (Python's image_sizes[0] is
\* image_sizes[1] here: sequences start at 1):
\*   cx = (j + 0.5) * step / image_sizes[1],
\*   cy = (i + 0.5) * step / image_sizes[0],
\*   s_kx = min_size / image_sizes[1],  s_ky = min_size / image_sizes[0].
AnchorReal(i, j, step, min_size, image_sizes) ==
    <<(<<(2 * j + 1) * step, 2 * image_sizes[2]>>),
      (<<(2 * i + 1) * step, 2 * image_sizes[1]>>),
      (<<min_size, image_sizes[2]>>),
      (<<min_size, image_sizes[1]>>)>>

\* The reals of a row after astype(np.float32).
Float32Row(row) == Table([c \in 1..Len(row) |-> F32(row[c])])

\* One anchor of the output array.
Anchor(i, j, step, min_size, image_sizes) ==
    Float32Row(AnchorReal(i, j, step, min_size, image_sizes))

\* for min_size in min_sizes[k]: anchors += [cx, cy, s_kx, s_ky]
CellAnchors(i, j, step, sizes, image_sizes) ==
    Table([s \in 1..Len(sizes) |-> Anchor(i, j, step, sizes[s], image_sizes)])

\* A row enumerated with the roles of i and j exchanged (j outermost).
RowAnchorsSwapped(i, f, step, sizes, image_sizes) ==
    Flatten([jj \in 1..Max(f[2], 0) |->
                CellAnchors(jj - 1, i, step, sizes, image_sizes)])

\* product(range(f[0]), range(f[1])): i outermost, j innermost.  range(n)
\* is empty for n <= 0.
RowAnchors(i, f, step, sizes, image_sizes) ==
    Flatten([jj \in 1..Max(f[2], 0) |->
                CellAnchors(i, jj - 1, step, sizes, image_sizes)])

ScaleAnchors(f, step, sizes, image_sizes) ==
    Flatten([ii \in 1..Max(f[1], 0) |->
                RowAnchors(ii - 1, f, step, sizes, image_sizes)])

\* np.clip(output, 0, 1).
ClipRows(rows) ==
    Table([p \in 1..Len(rows) |-> Table([c \in 1..4 |-> Clip01(rows[p][c])])])

\* The anchors of every scale, in the order of steps.
AllAnchors(fm, image_sizes, min_sizes, steps) ==
    Flatten([k \in 1..Len(steps) |->
                ScaleAnchors(fm[k], steps[k], min_sizes[k], image_sizes)])

\* The array before and after the clip.
Clipped(raw, clip) == IF clip THEN ClipRows(raw) ELSE raw

\* prior_box(image_sizes, min_sizes, steps, clip): the rows of the array.
PriorBox(image_sizes, min_sizes, steps, clip) ==
    Clipped(AllAnchors(FeatureMaps(image_sizes, steps), image_sizes,
                       min_sizes, steps), clip)

--------------------------------------------------------------------------
(* Box geometry *)

\* One row of center_point2boxes, with w/2 and h/2 at hand.
Corners(b, hw, hh) ==
    <<F32Sub(b[1], hw), F32Sub(b[2], hh), F32Add(b[1], hw), F32Add(b[2], hh)>>

\* center_point2boxes: (x, y, w, h) -> (x - w/2, y - h/2, x + w/2, y + h/2).
CenterPoint2Boxes(boxes) ==
    Table([p \in 1..Len(boxes) |->
              Corners(boxes[p], F32Half(boxes[p][3]), F32Half(boxes[p][4]))])

\* inter[:, :, k] of one pair of boxes: max(min(a2, b2) - max(a1, b1), 0)
\* on axis k.
Extent(x, y, k) ==
    F32Max(F32Sub(F32Min(x[k + 2], y[k + 2]), F32Max(x[k], y[k])), Zero)

\* compute_intersect(a, b)[r][c]: the extents on the two axes, multiplied.
ComputeIntersect(a, b) ==
    Table([r \in 1..Len(a) |-> Table([c \in 1..Len(b) |->
        F32Mul(Extent(a[r], b[c], 1), Extent(a[r], b[c], 2))])])

\* (x2 - x1) * (y2 - y1) of every box.
Areas(a) ==
    Table([r \in 1..Len(a) |->
        F32Mul(F32Sub(a[r][3], a[r][1]), F32Sub(a[r][4], a[r][2]))])

\* inter / (area_a + area_b - inter), entry by entry.
InterOverUnion(inter, area_a, area_b) ==
    Table([r \in 1..Len(area_a) |-> Table([c \in 1..Len(area_b) |->
        F32Div(inter[r][c],
               F32Sub(F32Add(area_a[r], area_b[c]), inter[r][c]))])])

\* compute_overlaps(a, b)[r][c] = inter / (area_a + area_b - inter).
ComputeOverlaps(a, b) ==
    InterOverUnion(ComputeIntersect(a, b), Areas(a), Areas(b))
--------------------------------------------------------------------------
(* match *)

\* targets[:, lo:hi] (columns lo..hi, counted from 1) of the caller's array.
Cols(arr, lo, hi) ==
    [den  |-> arr.den,
     rows |-> [r \in 1..Len(arr.rows) |-> SubSeq(arr.rows[r], lo, hi)]]

\* The float32 values an array of numerators over den holds.
AsFloat32(arr) ==
    Table([r \in 1..Len(arr.rows) |->
        Table([c \in 1..Len(arr.rows[r]) |->
                  F32(<<arr.rows[r][c], arr.den>>)])])

\* keys.max() of a non-empty sequence: nan if a key is nan.
RECURSIVE MaxOf(_)
MaxOf(keys) ==
    IF Len(keys) = 1 THEN keys[1]
    ELSE F32Max(keys[1], MaxOf(Tail(keys)))

\* Column c of a matrix given by rows.
Column(m, c) == Table([r \in 1..Len(m) |-> m[r][c]])

\* The order of the sort on float32 keys: a < b, a nan after everything.
SortLess(a, b) == ~IsNan(a) /\ (IsNan(b) \/ Less(a, b))

\* t with the entries at i and j exchanged; exchanged if c.
Swap(t, i, j) == Table([t EXCEPT ![i] = t[j], ![j] = t[i]])

SwapIf(c, t, i, j) == IF c THEN Swap(t, i, j) ELSE t

\* Partitions of at most this many keys more than one are sorted by
\* insertion.
SmallQuicksort == 16

\* How many entries of t[pl..pr] an insertion sort leaves before the entry
\* at p: those with a smaller key, and those before p with an equal key (an
\* entry moves down only past greater keys).
Before(v, t, pl, pr, p) ==
    Cardinality({q \in pl..pr :
        \/ SortLess(v[t[q]], v[t[p]])
        \/ q < p /\ ~SortLess(v[t[p]], v[t[q]])})

\* t with the entry at p moved to position where[p].
Placed(t, where) ==
    Table([i \in 1..Len(t) |-> t[CHOOSE p \in 1..Len(t) : where[p] = i]])

\* Insertion sort of t[pl..pr].
Insertion(v, t, pl, pr) ==
    Placed(t, Table([p \in 1..Len(t) |->
                        IF pl <= p /\ p <= pr
                        THEN pl + Before(v, t, pl, pr, p) ELSE p]))

\* The indices at lo and hi exchanged if the key at hi is below the one at lo.
Order2(v, t, lo, hi) == SwapIf(SortLess(v[t[hi]], v[t[lo]]), t, hi, lo)

\* The keys at pl, pm and pr put in order.
Median3(v, t, pl, pm, pr) ==
    Order2(v, Order2(v, Order2(v, t, pl, pm), pm, pr), pl, pm)

\* The first position from pi upward whose key is not below the pivot, from
\* pj downward whose key is not above it.
RECURSIVE ScanUp(_, _, _, _)
ScanUp(v, t, pi, vp) ==
    IF SortLess(v[t[pi]], vp) THEN ScanUp(v, t, pi + 1, vp) ELSE pi

RECURSIVE ScanDown(_, _, _, _)
ScanDown(v, t, pj, vp) ==
    IF SortLess(vp, v[t[pj]]) THEN ScanDown(v, t, pj - 1, vp) ELSE pj

\* The exchanges around the pivot vp, from positions pi and pj inward:
\* <<t, the position where the scans met>>.
RECURSIVE Exchange(_, _, _, _, _)
Exchange(v, t, pi, pj, vp) ==
    IF pi >= pj THEN <<t, pi>>
    ELSE Exchange(v, Swap(t, pi, pj),
                  ScanUp(v, Swap(t, pi, pj), pi + 1, vp),
                  ScanDown(v, Swap(t, pi, pj), pj - 1, vp), vp)

\* The partition of t[pl..pr], its median of three already at pm: the pivot
\* goes to pr - 1, the scans run, the pivot goes where they met.
PivotHome(tp, pr) == <<Swap(tp[1], tp[2], pr - 1), tp[2]>>

PartitionAt(v, t, pl, pm, pr, vp) ==
    PivotHome(Exchange(v, Swap(t, pm, pr - 1),
                       ScanUp(v, Swap(t, pm, pr - 1), pl + 1, vp),
                       ScanDown(v, Swap(t, pm, pr - 1), pr - 2, vp),
                       vp), pr)

PartitionMedian(v, t, pl, pm, pr) == PartitionAt(v, t, pl, pm, pr, v[t[pm]])

Partition(v, t, pl, pr) ==
    PartitionMedian(v, Median3(v, t, pl, pl + ((pr - pl) \div 2), pr),
                    pl, pl + ((pr - pl) \div 2), pr)

\* The index sort of t[pl..pr] and then of the partitions on the stack:
\* partitions of more than SmallQuicksort + 1 keys are split around the
\* median of three, the smaller side first, the rest sorted by insertion.
RECURSIVE Sort(_, _, _, _, _)
RECURSIVE Split(_, _, _, _, _)
RECURSIVE Pop(_, _, _)
Sort(v, t, pl, pr, stack) ==
    IF pr - pl > SmallQuicksort
    THEN Split(v, Partition(v, t, pl, pr), pl, pr, stack)
    ELSE Pop(v, Insertion(v, t, pl, pr), stack)

\* After a partition tp = <<t, pi>>: the larger side goes on the stack.
Split(v, tp, pl, pr, stack) ==
    IF tp[2] - pl < pr - tp[2]
    THEN Sort(v, tp[1], pl, tp[2] - 1, <<(<<tp[2] + 1, pr>>)>> \o stack)
    ELSE Sort(v, tp[1], tp[2] + 1, pr, <<(<<pl, tp[2] - 1>>)>> \o stack)

\* The next partition from the stack; none left: the sort is over.
Pop(v, t, stack) ==
    IF stack = <<>> THEN t
    ELSE Sort(v, t, stack[1][1], stack[1][2], Tail(stack))

\* np.argsort(keys) on one line of an array, positions counted from 1.
Argsort(keys) ==
    Sort(keys, Table([i \in 1..Len(keys) |-> i]), 1, Len(keys), <<>>)

\* np.argsort(-keys)[0].
ArgsortFirst(keys) ==
    Argsort(Table([i \in 1..Len(keys) |-> Neg(keys[i])]))[1]

\* np.argsort(-overlaps, axis=1)[:, 0:1]: every row sorted on its own.
BestPriorIdx(overlaps) ==
    Table([r \in 1..Len(overlaps) |-> ArgsortFirst(overlaps[r])])

\* np.argsort(-overlaps, axis=0)[:1, :]: every column sorted on its own.
BestTruthIdx(overlaps, nprior) ==
    Table([c \in 1..nprior |-> ArgsortFirst(Column(overlaps, c))])

\* A filter that every row passes.
ValidGtAny(best_prior_overlap) == F32Ge(best_prior_overlap, Zero)

\* valid_gt_idx = best_prior_overlap[:, 0] >= 0.2
ValidGt(best_prior_overlap) == F32Ge(best_prior_overlap, F32(<<1, 5>>))

\* The sentinel written at the best anchor of every row, filtered or not.
ForceOverlapAll(best_truth_overlap, best_prior_idx, valid_gt_idx) ==
    [c \in 1..Len(best_truth_overlap) |->
        IF \E r \in 1..Len(best_prior_idx) : best_prior_idx[r] = c
        THEN F32(<<2, 1>>)
        ELSE best_truth_overlap[c]]

\* best_truth_overlap[best_prior_idx_filter] = 2
ForceOverlap(best_truth_overlap, best_prior_idx, valid_gt_idx) ==
    [c \in 1..Len(best_truth_overlap) |->
        IF \E r \in 1..Len(best_prior_idx) :
              valid_gt_idx[r] /\ best_prior_idx[r] = c
        THEN F32(<<2, 1>>)
        ELSE best_truth_overlap[c]]

\* for j in range(best_prior_idx.shape[0]):
\*     best_truth_idx[best_prior_idx[j]] = j
\* run from row j to the last row.
RECURSIVE Reciprocal(_, _, _)
Reciprocal(best_truth_idx, best_prior_idx, j) ==
    IF j > Len(best_prior_idx) THEN best_truth_idx
    ELSE Reciprocal([best_truth_idx EXCEPT ![best_prior_idx[j]] = j],
                    best_prior_idx, j + 1)

\* np.float32(1e-12), the value stored where wh == 0.
Tiny == <<9223372, -63>>

\* The variances as the float32 operations of match() take them.
Var32(var) == <<F32(var[1]), F32(var[2])>>

\* offset_cxcy of one coordinate: (point - prior centre) / (var[0] * prior
\* size); var holds float32 values.
EncodeOffset(point, centre, size, var) ==
    Enc("id", F32Div(F32Sub(point, centre), F32Mul(var[1], size)), One)

\* wh[wh == 0] = 1e-12
NonZero(wh) == IF IsZero(wh) THEN Tiny ELSE wh

\* wh of one coordinate: log((hi - lo) / prior size) / var[1], a zero ratio
\* replaced by 1e-12 first.
EncodeSize(lo, hi, size, var) ==
    Enc("log", NonZero(F32Div(F32Sub(hi, lo), size)), var[2])

\* loc row of one prior p: the matched box m encoded against the prior.
EncodeBox(m, p, var) ==
    <<EncodeOffset(F32Half(F32Add(m[1], m[3])), p[1], p[3], var),
      EncodeOffset(F32Half(F32Add(m[2], m[4])), p[2], p[4], var),
      EncodeSize(m[1], m[3], p[3], var),
      EncodeSize(m[2], m[4], p[4], var)>>

\* landm row of one prior: 5 (x, y) points, each encoded against the prior.
EncodeLandm(lm, p, var) ==
    [c \in 1..Len(lm) |->
        IF c % 2 = 1
        THEN EncodeOffset(lm[c], p[1], p[3], var)
        ELSE EncodeOffset(lm[c], p[2], p[4], var)]

\* Indexing that returned a view of the indexed buffer.
GatherView(base) == base

\* What indexing with an index array (labels[best_truth_idx]) returns: a
\* copy, a buffer of its own.
GatherOwner(base) == "fresh"

\* What basic slicing (targets[:, -1]) returns: a view of the sliced buffer.
SliceOwner(base) == base

\* The three arrays of the early return: np.zeros, one row per prior.
ZeroRows(n, width) == [p \in 1..n |-> [c \in 1..width |-> ZeroVal]]

\* An early return sized by the number of boxes.
MatchEarlyPerBox(boxes, priors, overlaps, best_prior_idx, valid_gt_idx) ==
    [status             |-> "returned",
     early              |-> TRUE,
     overlaps           |-> overlaps,
     best_prior_idx     |-> best_prior_idx,
     valid_gt_idx       |-> valid_gt_idx,
     best_truth_idx0    |-> <<>>,
     best_truth_idx     |-> <<>>,
     best_truth_overlap |-> <<>>,
     loc                |-> ZeroRows(Len(boxes), 4),
     conf               |-> [p \in 1..Len(boxes) |-> 0],
     landm              |-> ZeroRows(Len(boxes), 10),
     zeroed             |-> {}]

\* match() up to the early return, lines 146-159.  No argsort of axis 0 has
\* run yet, and nothing was stored through labels.
MatchEarly(boxes, priors, overlaps, best_prior_idx, valid_gt_idx) ==
    [status             |-> "returned",
     early              |-> TRUE,
     overlaps           |-> overlaps,
     best_prior_idx     |-> best_prior_idx,
     valid_gt_idx       |-> valid_gt_idx,
     best_truth_idx0    |-> <<>>,
     best_truth_idx     |-> <<>>,
     best_truth_overlap |-> <<>>,
     loc                |-> ZeroRows(Len(priors), 4),
     conf               |-> [p \in 1..Len(priors) |-> 0],
     landm              |-> ZeroRows(Len(priors), 10),
     zeroed             |-> {}]

\* conf = labels[best_truth_idx]; conf[best_truth_overlap < threshold] = 0;
\* np.array(conf, dtype=np.int32), cast being what the cast makes of a
\* label with no int32 value.
Conf(threshold, labels, best_truth_idx, best_truth_overlap, cast) ==
    [c \in 1..Len(best_truth_idx) |->
        IF F32Lt(best_truth_overlap[c], threshold) THEN 0
        ELSE ToInt32(labels[best_truth_idx[c]], cast)]

\* The rows of labels that the store of line 185 would reach, were conf a
\* view of labels.
Zeroed(threshold, best_truth_idx, best_truth_overlap) ==
    IF GatherOwner("labels") = "labels"
    THEN {best_truth_idx[c] : c \in {d \in 1..Len(best_truth_idx) :
                                 F32Lt(best_truth_overlap[d], threshold)}}
    ELSE {}

\* match() from line 174 on: best_truth_idx after the reciprocal loop,
\* best_truth_overlap with the forced matches in it.
MatchEncode(threshold, boxes, priors, var, labels, landms, overlaps, best_prior_idx, valid_gt_idx, best_truth_idx0, best_truth_idx, best_truth_overlap, cast) ==
    [status             |-> "returned",
     early              |-> FALSE,
     overlaps           |-> overlaps,
     best_prior_idx     |-> best_prior_idx,
     valid_gt_idx       |-> valid_gt_idx,
     best_truth_idx0    |-> best_truth_idx0,
     best_truth_idx     |-> best_truth_idx,
     best_truth_overlap |-> best_truth_overlap,
     loc   |-> Table([c \in 1..Len(priors) |->
                  EncodeBox(boxes[best_truth_idx[c]], priors[c], var)]),
     conf  |-> Table(Conf(threshold, labels, best_truth_idx,
                          best_truth_overlap, cast)),
     landm |-> Table([c \in 1..Len(priors) |->
                  Table(EncodeLandm(landms[best_truth_idx[c]], priors[c],
                                    var))]),
     zeroed |-> Zeroed(threshold, best_truth_idx, best_truth_overlap)]

\* match() from line 162 on: overlaps.max(0), the argsort of axis 0, the
\* forced matches and the reciprocal loop.
MatchNormal(threshold, boxes, priors, var, labels, landms, overlaps, best_prior_idx, valid_gt_idx, best_truth_idx0, cast) ==
    MatchEncode(threshold, boxes, priors, var, labels, landms, overlaps,
                best_prior_idx, valid_gt_idx, best_truth_idx0,
                Reciprocal(best_truth_idx0, best_prior_idx, 1),
                Table(ForceOverlap(
                    [c \in 1..Len(priors) |-> MaxOf(Column(overlaps, c))],
                    best_prior_idx, valid_gt_idx)),
                cast)

\* overlaps.max(1) of an array with no column raises ValueError (line 150):
\* match() returns nothing.
MatchRaised ==
    [status             |-> "raised",
     early              |-> FALSE,
     overlaps           |-> <<>>,
     best_prior_idx     |-> <<>>,
     valid_gt_idx       |-> <<>>,
     best_truth_idx0    |-> <<>>,
     best_truth_idx     |-> <<>>,
     best_truth_overlap |-> <<>>,
     loc                |-> <<>>,
     conf               |-> <<>>,
     landm              |-> <<>>,
     zeroed             |-> {}]

\* match() from line 153 on: the 0.2 filter and the two ways out.
MatchFiltered(threshold, boxes, priors, var, labels, landms, overlaps, best_prior_idx, valid_gt_idx, cast) ==
    IF \A r \in 1..Len(overlaps) : ~valid_gt_idx[r]
    THEN MatchEarly(boxes, priors, overlaps, best_prior_idx, valid_gt_idx)
    ELSE MatchNormal(threshold, boxes, priors, var, labels, landms, overlaps,
                     best_prior_idx, valid_gt_idx,
                     BestTruthIdx(overlaps, Len(priors)), cast)

\* match() from line 150 on, the overlaps computed.
MatchOverlaps(threshold, boxes, priors, var, labels, landms, overlaps, cast) ==
    MatchFiltered(threshold, boxes, priors, var, labels, landms, overlaps,
                  BestPriorIdx(overlaps),
                  Table([r \in 1..Len(overlaps) |->
                            ValidGt(MaxOf(overlaps[r]))]),
                  cast)

\* match(threshold, boxes, priors, var, labels, landms): threshold and var
\* are the Python floats of the configuration, cast to float32 where an
\* array operation meets them; cast is what the build's cast to int32 does
\* with a label that has no int32 value.
Match(threshold, boxes, priors, var, labels, landms, cast) ==
    IF Len(priors) = 0 THEN MatchRaised
    ELSE MatchOverlaps(F32(threshold), boxes, priors, Var32(var), labels,
                       landms,
                       ComputeOverlaps(boxes, CenterPoint2Boxes(priors)),
                       cast)

--------------------------------------------------------------------------
(* BboxEncoder *)

\* BboxEncoder.__init__(config).  Nothing is validated.
BboxEncoderInit(cfg) ==
    [match_thresh |-> cfg.match_thresh,
     variances    |-> cfg.variance,
     priors       |-> PriorBox(<<cfg.image_size, cfg.image_size>>,
                               MinSizes, Steps, cfg.clip)]

\* The caller's array after the call: labels = targets[:, -1] is a view, so
\* a 0 that match() stored into labels is stored into the last column.
WriteBack(arr, zeroed) ==
    IF SliceOwner("targets") = "targets"
    THEN [arr EXCEPT !.rows = [r \in 1..Len(arr.rows) |->
             IF r \in zeroed
             THEN [arr.rows[r] EXCEPT ![Len(arr.rows[r])] = 0]
             ELSE arr.rows[r]]]
    ELSE arr

\* BboxEncoder.__call__(image, targets): what match() gives for
\* boxes = targets[:, :4], labels = targets[:, -1], landms = targets[:, 4:14].
BboxEncoderCall(self, targets_arr, cast) ==
    Match(self.match_thresh, AsFloat32(Cols(targets_arr, 1, 4)), self.priors,
          self.variances, Column(AsFloat32(Cols(targets_arr, 15, 15)), 1),
          AsFloat32(Cols(targets_arr, 5, 14)), cast)

\* What the caller holds after a call: (image, loc_t, conf_t, landm_t), and
\* match()'s intermediates for the properties below; cast is what the
\* build that ran the call makes of a cast with no int32 value.
Returned(img, res, cast) ==
    [status             |-> res.status,
     cast               |-> cast,
     image              |-> img,
     early              |-> res.early,
     overlaps           |-> res.overlaps,
     best_prior_idx     |-> res.best_prior_idx,
     valid_gt_idx       |-> res.valid_gt_idx,
     best_truth_idx0    |-> res.best_truth_idx0,
     best_truth_idx     |-> res.best_truth_idx,
     best_truth_overlap |-> res.best_truth_overlap,
     loc                |-> res.loc,
     conf               |-> res.conf,
     landm              |-> res.landm]

NoOut == Returned("", [MatchRaised EXCEPT !.status = "none"], "")

--------------------------------------------------------------------------
(* Inputs *)

\* Most annotation rows of one sample.
MaxGT == 2

Images == {"imgA", "imgB"}

\* config['variance'] of the repository's configuration: [0.1, 0.2].
Variance == <<(<<1, 10>>), (<<1, 5>>)>>

\* Thresholds in (0, 1]: below the 0.2 filter, 0.35, and 1.
Thresholds == {<<1, 8>>, <<7, 20>>, <<1, 1>>}

Cfg(size, thresh, var, clip) ==
    [image_size |-> size, match_thresh |-> thresh, variance |-> var,
     clip |-> clip]

\* Configurations of the documented form: positive size, threshold in (0, 1],
\* positive variances.
ValidConfigs ==
    {Cfg(8, th, Variance, cl) : th \in Thresholds, cl \in BOOLEAN}
    \cup {Cfg(16, th, Variance, FALSE) : th \in Thresholds}
    \cup {Cfg(16, <<7, 20>>, Variance, TRUE)}
    \cup {Cfg(32, th, Variance, FALSE) : th \in {<<7, 20>>, <<1, 1>>}}
    \cup {Cfg(640, <<7, 20>>, Variance, cl) : cl \in BOOLEAN}
    \cup {Cfg(8, <<7, 20>>, <<(<<1, 5>>), (<<1, 10>>)>>, FALSE)}

\* Configurations the documented form excludes: a size, a threshold or a
\* variance out of range.
MalformedConfigs ==
    {Cfg(0, <<7, 20>>, Variance, FALSE),
     Cfg(-8, <<7, 20>>, Variance, FALSE),
     Cfg(8, <<0, 1>>, Variance, FALSE),
     Cfg(8, <<3, 2>>, Variance, FALSE),
     Cfg(8, <<7, 20>>, <<(<<0, 1>>), (<<1, 5>>)>>, FALSE),
     Cfg(8, <<7, 20>>, <<(<<1, 10>>), (<<-1, 5>>)>>, FALSE)}

Configs == ValidConfigs \cup MalformedConfigs

\* Ground-truth boxes (x1, y1, x2, y2) in halves of the image side: a point,
\* a quarter, a half-image strip, the whole image, the far quarter.
Boxes == {<<0, 0, 0, 0>>, <<0, 0, 1, 1>>, <<0, 0, 2, 1>>,
          <<0, 0, 2, 2>>, <<1, 1, 2, 2>>}

\* One annotation row: box, 5 landmark points (the box corners and a point
\* that tells the rows of one box apart), label; the label too is in halves
\* (2 is label 1, 4 is label 2).
Row(b, lab) == <<b[1], b[2], b[3], b[4],
                 b[1], b[2], b[3], b[2], b[1], b[4], b[3], b[4], lab, lab,
                 lab>>

\* Every box with label 1; the quarter and the whole image also with label 2.
Rows == {Row(b, 2) : b \in Boxes}
        \cup {Row(b, 4) : b \in {<<0, 0, 1, 1>>, <<0, 0, 2, 2>>}}

RECURSIVE SeqsUpTo(_, _)
SeqsUpTo(S, n) ==
    IF n = 0 THEN {<<>>}
    ELSE LET shorter == SeqsUpTo(S, n - 1)
         IN  shorter \cup {Append(q, x) : q \in shorter, x \in S}

\* A box in 8192ths of the image side whose overlap with the clipped
\* whole-image anchor (0.5, 0.5, 1, 1) is 3408704/17043521 as a real, just
\* below 1/5, and float32(0.2) as float32 arithmetic computes it.
RoundedBox == [den |-> 8192, rows |-> <<Row(<<-260, 0, 3328, 4097>>, 8192)>>]

\* The whole image with the label 2^31 - 1, which the float32 array holds as
\* 2^31: a label with no int32 value.
WideLabel ==
    [den |-> 1,
     rows |-> <<<<0, 0, 1, 1, 0, 0, 1, 0, 0, 1, 1, 1, 0, 0, IntMax>>>>]

\* The annotation arrays drawn for a configuration: up to MaxGT rows, and
\* RoundedBox and WideLabel for a clipped 8 x 8 image.  With the 16800 anchors of a
\* 640 x 640 image only the empty array is drawn.
TargetsFor(cfg) ==
    {[den |-> 2, rows |-> q] :
        q \in IF cfg.image_size > 32 THEN {<<>>} ELSE SeqsUpTo(Rows, MaxGT)}
    \cup IF cfg.image_size = 8 /\ cfg.clip
         THEN {RoundedBox, WideLabel} ELSE {}

--------------------------------------------------------------------------
(* State machine *)

Init ==
    /\ config \in Configs
    /\ enc = BboxEncoderInit(config)
    /\ image = "imgA"
    /\ targets \in TargetsFor(config)
    /\ out = NoOut

\* encoder(image, targets), on a sample not yet encoded.
Call ==
    /\ out.status = "none"
    /\ \E cast \in Casts : \E res \in {BboxEncoderCall(enc, targets, cast)} :
        /\ out' = Returned(image, res, cast)
        /\ targets' = IF res.status = "returned"
                      THEN WriteBack(targets, res.zeroed)
                      ELSE targets
    /\ UNCHANGED <<config, enc, image>>

\* The caller moves on to another sample: another image, an annotation array
\* with one row fewer; the previous result is dropped.
NextSample ==
    /\ out.status # "none"
    /\ \E i \in 1..Len(targets.rows), img \in Images \ {image} :
        /\ targets' = [targets EXCEPT !.rows =
                          SubSeq(targets.rows, 1, i - 1)
                          \o SubSeq(targets.rows, i + 1, Len(targets.rows))]
        /\ image' = img
    /\ out' = NoOut
    /\ UNCHANGED <<config, enc>>

Next == Call \/ NextSample

Spec == Init /\ [][Next]_vars

--------------------------------------------------------------------------
(* Vocabulary of the properties *)

NumAnchors == Len(enc.priors)

NumGT == Len(targets.rows)

\* The last call returned; it returned from line 196 (not the early return).
Returned_ == out.status = "returned"

NormalPath == out.status = "returned" /\ ~out.early

\* The configuration has the documented form (spec section 6).
WellFormed(cfg) ==
    /\ cfg.image_size > 0
    /\ \A v \in 1..2 : cfg.variance[v][1] > 0 /\ cfg.variance[v][2] > 0
    /\ RatLt(<<0, 1>>, cfg.match_thresh)
    /\ RatGe(<<1, 1>>, cfg.match_thresh)

\* IoU of ground-truth row r and anchor a in the last call.
IoU(r, a) == out.overlaps[r][a]

\* Largest IoU of row r over the anchors, of anchor a over the rows.
BestOfRow(r) == MaxOf(out.overlaps[r])

BestOfAnchor(a) == MaxOf(Column(out.overlaps, a))

\* float32(0.2) and float32(match_thresh), as the comparisons of lines 153
\* and 185 see them.
Fifth == F32(<<1, 5>>)

Thresh == F32(config.match_thresh)

\* Row r passes the 0.2 filter.
Passes(r) == F32Ge(BestOfRow(r), Fifth)

\* The box and the landmarks of annotation row r, as float32 values.
BoxOf(r) == AsFloat32(Cols(targets, 1, 4))[r]

LandmOf(r) == AsFloat32(Cols(targets, 5, 14))[r]

\* The class label of annotation row r, as the int32 cast of the build that
\* ran the call makes it.
LabelOf(r) == ToInt32(F32(<<targets.rows[r][15], targets.den>>), out.cast)

\* Anchor a is the best anchor of a row that passes the filter.
Forced(a) == \E r \in 1..NumGT : Passes(r) /\ out.best_prior_idx[r] = a

--------------------------------------------------------------------------
(* C1: forced match.  Claimed: with a threshold in (0, 1], if row g has     *)
(* overlap >= 0.2 with its best anchor a and every other row's overlap with *)
(* a is below the threshold, the classification target of a is g's label.   *)
(* The reciprocal loop lets a later row with the same best anchor take a.   *)
C1_ForcedMatchKeepsLabel ==
    (Returned_ /\ WellFormed(config)) =>
        \A g \in 1..NumGT :
            LET a == out.best_prior_idx[g]
            IN  (/\ F32Ge(IoU(g, a), Fifth)
                 /\ \A r \in (1..NumGT) \ {g} : F32Lt(IoU(r, a), Thresh))
                => out.conf[a] = LabelOf(g)

(* C2: degenerate input.  With no annotation row, or with every row's best  *)
(* overlap below 0.2, a call on a non-empty anchor set returns, and returns *)
(* all-zero location, classification and landmark targets, one row per      *)
(* anchor, whatever the threshold and the variance.                         *)
C2_DegenerateInputAllZero ==
    (/\ out.status # "none"
     /\ NumAnchors > 0
     /\ \A r \in 1..NumGT : F32Lt(BestOfRow(r), Fifth))
    => /\ out.status = "returned"
       /\ out.loc = [p \in 1..NumAnchors |-> <<ZeroVal, ZeroVal, ZeroVal, ZeroVal>>]
       /\ out.conf = [p \in 1..NumAnchors |-> 0]
       /\ out.landm = [p \in 1..NumAnchors |-> [c \in 1..10 |-> ZeroVal]]

\* A call whose rows all overlap some anchor, none of them by 0.2.
C2_Witness ==
    /\ Returned_
    /\ WellFormed(config)
    /\ NumGT = 2
    /\ \A r \in 1..NumGT : /\ F32Lt(Zero, BestOfRow(r))
                           /\ F32Lt(BestOfRow(r), Fifth)
    /\ out.conf = [p \in 1..NumAnchors |-> 0]

(* C3: fixed-length output.  Whenever a call returns, by the early return   *)
(* or by the normal path, loc has NumAnchors rows of 4, conf NumAnchors     *)
(* entries and landm NumAnchors rows of 10; on the normal path row p is the *)
(* encoding, against anchor p, of the row bound to anchor p.                *)
C3_FixedLengthOutput ==
    Returned_ =>
        /\ Len(out.loc) = NumAnchors
        /\ Len(out.conf) = NumAnchors
        /\ Len(out.landm) = NumAnchors
        /\ \A p \in 1..NumAnchors :
            /\ Len(out.loc[p]) = 4
            /\ Len(out.landm[p]) = 10
            /\ ~out.early =>
                LET r == out.best_truth_idx[p]
                IN  /\ out.loc[p] = EncodeBox(BoxOf(r), enc.priors[p],
                                               Var32(enc.variances))
                    /\ out.landm[p] = EncodeLandm(LandmOf(r), enc.priors[p],
                                                   Var32(enc.variances))

\* A normal-path call with fewer rows than anchors, after an earlier sample.
C3_Witness ==
    /\ NormalPath
    /\ image = "imgB"
    /\ NumGT = 1
    /\ NumAnchors = 12
    /\ Len(out.loc) = 12

(* C4: no mutation after construction.  The anchor set is always the value  *)
(* built in __init__; a call leaves the encoder and the caller's annotation *)
(* array as they were and returns the image it was given.                   *)
C4_NoMutation ==
    /\ [](enc = BboxEncoderInit(config))
    /\ [][out'.status \in {"returned", "raised"} =>
            /\ enc' = enc
            /\ targets' = targets
            /\ out'.image = image]_vars

\* A second sample went through the normal path and had classification
\* targets stored to 0 (the in-place store of line 185).
C4_Witness ==
    /\ NormalPath
    /\ image = "imgB"
    /\ \E a \in 1..NumAnchors :
          F32Lt(out.best_truth_overlap[a], Thresh) /\ out.conf[a] = 0
    /\ \E a \in 1..NumAnchors : out.conf[a] # 0

--------------------------------------------------------------------------
(* The anchor set, position by position *)

\* Cells along one side at a step: the least f >= 0 with f * step >= size.
CellsAlong(size, step) ==
    CHOOSE f \in 0..Max(size, 0) :
        f * step >= size /\ (f = 0 \/ (f - 1) * step < size)

\* Coordinate c of the anchor at position p (from 1), as a real, when scale
\* k has cells[k] cells a side: scales in order, then rows, then columns,
\* then the min sizes of the scale.
AnchorCoordAt(p, c, size, cells) ==
    LET count == [k \in 1..3 |-> cells[k] * cells[k] * Len(MinSizes[k])]
        base  == <<0, count[1], count[1] + count[2]>>
        k     == CHOOSE kk \in 1..3 : base[kk] < p /\ p <= base[kk] + count[kk]
        q     == p - base[k] - 1
        m     == MinSizes[k][(q % Len(MinSizes[k])) + 1]
        cell  == q \div Len(MinSizes[k])
        j     == cell % cells[k]
        i     == cell \div cells[k]
    IN  CASE c = 1 -> Rat((2 * j + 1) * Steps[k], 2 * size)
          [] c = 2 -> Rat((2 * i + 1) * Steps[k], 2 * size)
          [] OTHER -> Rat(m, size)

\* A real clamped to [0, 1].
Clamp01(x) == IF RatLt(x, <<0, 1>>) THEN <<0, 1>>
              ELSE IF RatLt(<<1, 1>>, x) THEN <<1, 1>> ELSE x

\* Coordinate c of the stored anchor p.
PriorCoord(p, c) == enc.priors[p][c]

(* C5 as claimed: the anchor set is exactly the enumeration scale, row,     *)
(* column, min size of (cx, cy, w, h) = ((j+0.5) step/size, (i+0.5)         *)
(* step/size, m/size, m/size), its length the sum over the scales of        *)
(* ceil(size/step)^2 * (number of min sizes), 16800 for a 640 x 640 image.  *)
(* clip = True clamps what exceeds 1, and a negative size gives no anchor.  *)
C5_AnchorsUnclipped ==
    LET size  == config.image_size
        cells == [k \in 1..3 |-> Ceil(size, Steps[k])]
    IN  /\ NumAnchors = cells[1] * cells[1] * 2 + cells[2] * cells[2] * 2
                        + cells[3] * cells[3] * 2
        /\ \A p \in 1..NumAnchors : \A c \in 1..4 :
              PriorCoord(p, c) = F32(AnchorCoordAt(p, c, size, cells))
        /\ size = 640 => NumAnchors = 16800

(* C5, amended: the same enumeration with every coordinate clamped to       *)
(* [0, 1] when clip is set, and a scale contributing max(ceil(size/step),   *)
(* 0)^2 * (number of min sizes) anchors; 16800 for a 640 x 640 image.       *)
C5_AnchorSetOrderAndLength ==
    LET size  == config.image_size
        cells == [k \in 1..3 |-> CellsAlong(size, Steps[k])]
    IN  /\ NumAnchors = cells[1] * cells[1] * 2 + cells[2] * cells[2] * 2
                        + cells[3] * cells[3] * 2
        /\ \A p \in 1..NumAnchors : \A c \in 1..4 :
              PriorCoord(p, c) =
                  IF config.clip
                  THEN F32(Clamp01(AnchorCoordAt(p, c, size, cells)))
                  ELSE F32(AnchorCoordAt(p, c, size, cells))
        /\ size = 640 => NumAnchors = 16800

\* A clipped anchor set whose cells are not all on the diagonal and where an
\* anchor was clamped.
C5_Witness ==
    /\ config.clip
    /\ config.image_size = 16
    /\ NumAnchors = 12
    /\ PriorCoord(3, 1) = F32(<<3, 4>>)
    /\ PriorCoord(3, 2) = F32(<<1, 4>>)
    /\ PriorCoord(4, 3) = One

(* C6: configuration validation.  Claimed: an encoder exists, and a call    *)
(* runs, only for a configuration with positive size, positive variances    *)
(* and a threshold in (0, 1].  __init__ validates nothing.                  *)
C6_MalformedConfigRejected ==
    (enc = BboxEncoderInit(config) /\ out.status = "returned")
        => WellFormed(config)

(* C7: reciprocal assignment.  Claimed: on the normal path every row r has  *)
(* its best anchor bound to it, best_truth_idx[best_prior_idx[r]] = r, and  *)
(* that anchor's location and landmark targets are encoded from row r.      *)
(* Two rows with the same best anchor cannot both have it.                  *)
C7_EveryRowOwnsBestAnchor ==
    NormalPath =>
        \A r \in 1..NumGT :
            LET a == out.best_prior_idx[r]
            IN  /\ out.best_truth_idx[a] = r
                /\ out.loc[a] = EncodeBox(BoxOf(r), enc.priors[a],
                                           Var32(enc.variances))
                /\ out.landm[a] = EncodeLandm(LandmOf(r), enc.priors[a],
                                               Var32(enc.variances))

(* C8: classification rule.  On the normal path the classification target   *)
(* of anchor a is the label of the row finally bound to a if a is the best  *)
(* anchor of a row passing the 0.2 filter or a's largest overlap over the   *)
(* rows is at least the threshold, and 0 otherwise.                         *)
C8_ClassificationRule ==
    NormalPath =>
        \A a \in 1..NumAnchors :
            out.conf[a] =
                IF Forced(a) \/ F32Ge(BestOfAnchor(a), Thresh)
                THEN LabelOf(out.best_truth_idx[a])
                ELSE 0

\* One call with an anchor kept by the forced match alone, an anchor kept by
\* the threshold alone, and a background anchor.
C8_Witness ==
    /\ NormalPath
    /\ WellFormed(config)
    /\ \E a \in 1..NumAnchors :
          /\ Forced(a)
          /\ F32Lt(BestOfAnchor(a), Thresh)
          /\ out.conf[a] = 2
    /\ \E a \in 1..NumAnchors :
          /\ ~Forced(a)
          /\ F32Ge(BestOfAnchor(a), Thresh)
          /\ out.conf[a] = 1
    /\ \E a \in 1..NumAnchors : out.conf[a] = 0

(* C9: weak rows are never force-classified.  Claimed: the best anchor of a *)
(* row whose best overlap is below 0.2 is non-background only if the        *)
(* anchor's largest overlap reaches the threshold, and with a threshold of  *)
(* at least 0.2 no anchor carries the label of a row it overlaps by less    *)
(* than 0.2.  A weak row sharing its best anchor with a passing row takes   *)
(* the forced anchor.                                                       *)
C9_WeakRowsNotForced ==
    (NormalPath /\ WellFormed(config)) =>
        /\ \A r \in 1..NumGT :
              (~Passes(r) /\ out.conf[out.best_prior_idx[r]] # 0)
                  => F32Ge(BestOfAnchor(out.best_prior_idx[r]), Thresh)
        /\ RatGe(config.match_thresh, <<1, 5>>) =>
              \A a \in 1..NumAnchors :
                  out.conf[a] # 0
                      => F32Ge(IoU(out.best_truth_idx[a], a), Fifth)

(* C10: tie-break.  Claimed: best_prior_idx of a row is the lowest anchor   *)
(* position among those tied for the row's largest overlap, and             *)
(* best_truth_idx of an anchor, before the reciprocal loop, the lowest row  *)
(* position among those tied; consequently a second run of the call on the  *)
(* same inputs (by the same build) gives the same outputs.  Element 0 of an *)
(* argsort is the lowest tied position only while the line is short enough  *)
(* to be sorted by insertion; a partition moves equal keys past one         *)
(* another.                                                                 *)
C10_LowestIndexWinsTies ==
    Returned_ =>
        /\ \A r \in 1..NumGT :
              \A a \in 1..NumAnchors :
                  F32Ge(IoU(r, a), BestOfRow(r)) => out.best_prior_idx[r] <= a
        /\ ~out.early =>
              \A a \in 1..NumAnchors :
                  \A r \in 1..NumGT :
                      F32Ge(IoU(r, a), BestOfAnchor(a))
                          => out.best_truth_idx0[a] <= r
        /\ out = Returned(image, BboxEncoderCall(enc, targets, out.cast),
                          out.cast)
====
